---------------------------- MODULE Spec2Model ----------------------------
(***************************************************************************)
(* Model of streamlit_app.py: the visa-decision table is read and cleaned  *)
(* (prepare_dataframe), sorted by application number, and a user-entered   *)
(* identifier is validated and looked up (search_application,              *)
(* binary_search_nearest).                                                 *)
(*                                                                         *)
(* Strings are sequences of one-character strings, so that strip, lower,   *)
(* split, isdigit, str() and int() are modelled by what they do.           *)
(***************************************************************************)
EXTENDS Integers, Sequences, FiniteSets

VARIABLES raw, pc, df, columns, returned, exc, user_input, out

vars == <<raw, pc, df, columns, returned, exc, user_input, out>>

----------------------------------------------------------------------------
(* Bounds of the model *)

\* the longest sheet explored, in rows
MaxRows == 3

----------------------------------------------------------------------------
(* Characters and Python string primitives *)

Digits == <<"0", "1", "2", "3", "4", "5", "6", "7", "8", "9">>

UpperLetters == <<"A", "B", "C", "D", "E", "F", "G", "H", "I", "J", "K", "L", "M",
                  "N", "O", "P", "Q", "R", "S", "T", "U", "V", "W", "X", "Y", "Z">>

LowerLetters == <<"a", "b", "c", "d", "e", "f", "g", "h", "i", "j", "k", "l", "m",
                  "n", "o", "p", "q", "r", "s", "t", "u", "v", "w", "x", "y", "z">>

\* "sup2" stands for the one character U+00B2 (superscript two): str.isdigit()
\* is True for it and int() rejects it.
SUP2 == "sup2"

IsAsciiDigit(c) == \E i \in 1..10 : Digits[i] = c

DigitVal(c) == (CHOOSE i \in 1..10 : Digits[i] = c) - 1

\* str.isdigit() on one character
CharIsDigit(c) == IsAsciiDigit(c) \/ c = SUP2

\* str.isdigit(): every character is a digit and there is at least one
StrIsDigit(s) == Len(s) > 0 /\ \A i \in 1..Len(s) : CharIsDigit(s[i])

LowerChar(c) ==
    IF \E i \in 1..26 : UpperLetters[i] = c
    THEN LowerLetters[CHOOSE i \in 1..26 : UpperLetters[i] = c]
    ELSE c

\* str.lower()
StrLower(s) == [i \in 1..Len(s) |-> LowerChar(s[i])]

IsSpace(c) == c = " "

RECURSIVE LStrip(_)
LStrip(s) == IF Len(s) > 0 /\ IsSpace(s[1]) THEN LStrip(Tail(s)) ELSE s

RECURSIVE RStrip(_)
RStrip(s) ==
    IF Len(s) > 0 /\ IsSpace(s[Len(s)]) THEN RStrip(SubSeq(s, 1, Len(s) - 1)) ELSE s

\* str.strip()
StrStrip(s) == RStrip(LStrip(s))

RECURSIVE DecimalValue(_)
DecimalValue(s) ==
    IF Len(s) = 0 THEN 0
    ELSE 10 * DecimalValue(SubSeq(s, 1, Len(s) - 1)) + DigitVal(s[Len(s)])

\* int(s) for a str: surrounding whitespace, an optional sign, then one or
\* more decimal digits; anything else raises ValueError (ok = FALSE).
PyInt(s) ==
    LET t == StrStrip(s)
        signed == Len(t) > 0 /\ t[1] \in {"+", "-"}
        body == IF signed THEN Tail(t) ELSE t
        good == Len(body) > 0 /\ \A i \in 1..Len(body) : IsAsciiDigit(body[i])
    IN  IF ~good THEN [ok |-> FALSE, val |-> 0]
        ELSE [ok |-> TRUE,
              val |-> IF signed /\ t[1] = "-" THEN 0 - DecimalValue(body)
                      ELSE DecimalValue(body)]

RECURSIVE NatStr(_)
NatStr(n) == IF n < 10 THEN <<Digits[n + 1]>> ELSE NatStr(n \div 10) \o <<Digits[(n % 10) + 1]>>

\* str(n) for an int
PyStr(n) == IF n < 0 THEN <<"-">> \o NatStr(0 - n) ELSE NatStr(n)

\* the lower-cased country-code token
IRL == <<"i", "r", "l">>

\* "irl" in s
Contains(s, t) == \E i \in 1..(Len(s) - Len(t) + 1) : SubSeq(s, i, i + Len(t) - 1) = t

\* s.split(t)[-1]: split scans left to right for non-overlapping occurrences
\* of t; the last piece is what follows the last occurrence found.
RECURSIVE SplitLast(_, _)
SplitLast(s, t) ==
    IF ~Contains(s, t) THEN s
    ELSE LET i == CHOOSE k \in 1..(Len(s) - Len(t) + 1) :
                      /\ SubSeq(s, k, k + Len(t) - 1) = t
                      /\ \A j \in 1..(k - 1) : SubSeq(s, j, j + Len(t) - 1) # t
         IN  SplitLast(SubSeq(s, i + Len(t), Len(s)), t)

\* "".join(filter(str.isdigit, s))
FilterDigits(s) == SelectSeq(s, CharIsDigit)

----------------------------------------------------------------------------
(* Cells of the sheet as pandas reads them *)

\* an empty cell (float NaN)
NaN == [t |-> "nan", v |-> 0, s |-> <<>>]

\* a numeric cell holding a whole number
IntCell(n) == [t |-> "int", v |-> n, s |-> <<>>]

\* a text cell
StrCell(chars) == [t |-> "str", v |-> 0, s |-> chars]

IsNull(c) == c.t = "nan"

\* Series.astype(str) on one cell
AsStr(c) ==
    CASE c.t = "int" -> PyStr(c.v)
      [] c.t = "nan" -> <<"n", "a", "n">>
      [] OTHER -> c.s

APPLICATION_NUMBER ==
    <<"A", "p", "p", "l", "i", "c", "a", "t", "i", "o", "n", " ",
      "N", "u", "m", "b", "e", "r">>

DECISION == <<"D", "e", "c", "i", "s", "i", "o", "n">>

REFUSED == <<"r", "e", "f", "u", "s", "e", "d">>

APPROVED == <<"a", "p", "p", "r", "o", "v", "e", "d">>

\* the number of digits the three length tests of search_application compare with
IrlMinDigits == 8

PlainMinDigits == 8

PlainMaxDigits == 8

----------------------------------------------------------------------------
(* The sheets explored: rows of the columns "Unnamed: 1", "Unnamed: 2" and  *)
(* "Unnamed: 3" (u1 is dropped by prepare_dataframe).                       *)

Row(a, b, c) == [u1 |-> a, u2 |-> b, u3 |-> c]

SampleRows ==
    { Row(NaN, NaN, NaN),
      Row(StrCell(<<"n", "o", "t", "e">>), NaN, NaN),
      Row(NaN, StrCell(APPLICATION_NUMBER), StrCell(DECISION)),
      Row(NaN, IntCell(10000001), StrCell(<<"A", "p", "p", "r", "o", "v", "e", "d">>)),
      Row(NaN, IntCell(10000001), StrCell(<<"R", "E", "F", "U", "S", "E", "D">>)),
      Row(NaN, IntCell(10000005), StrCell(<<"R", "e", "f", "u", "s", "e", "d">>)),
      Row(NaN, IntCell(0), StrCell(<<"P", "e", "n", "d", "i", "n", "g">>)),
      Row(NaN, StrCell(<<" ", "1", "0", "0", "0", "0", "0", "0", "3", " ">>), NaN),
      Row(NaN, StrCell(<<"-", "5">>), StrCell(<<"A", "p", "p", "r", "o", "v", "e", "d">>)),
      Row(NaN, StrCell(<<"T", "o", "t", "a", "l">>), IntCell(3)) }

Sheets == UNION { [1..n -> SampleRows] : n \in 0..MaxRows }

----------------------------------------------------------------------------
(* prepare_dataframe *)

\* one row of the frame once "Unnamed: 0" and "Unnamed: 1" are dropped
Entry(k, d) == [num |-> k, dec |-> d]

RowIsBlank(e) == IsNull(e.num) /\ IsNull(e.dec)

\* read_excel, drop(columns=...), dropna(how="all"), reset_index
CleanFrame(sheet) ==
    LET kept == [i \in 1..Len(sheet) |-> Entry(sheet[i].u2, sheet[i].u3)]
    IN  SelectSeq(kept, LAMBDA e : ~RowIsBlank(e))

IsHeaderRow(e) == e.num = StrCell(APPLICATION_NUMBER) /\ e.dec = StrCell(DECISION)

\* the loop over df.iterrows(): the index of the first header row, 0 if the
\* loop ends without a break
RECURSIVE ScanHeader(_, _)
ScanHeader(frame, idx) ==
    IF idx > Len(frame) THEN 0
    ELSE IF IsHeaderRow(frame[idx]) THEN idx
    ELSE ScanHeader(frame, idx + 1)

\* the slice df.iloc[idx:], which would keep the header row
AfterHeaderFromIdx(frame, pos) == SubSeq(frame, pos, Len(frame))

\* df.iloc[idx + 1:] with idx the 0-based label of the header row
AfterHeader(frame, pos) == SubSeq(frame, pos + 1, Len(frame))

\* .astype(str).str.strip().astype(int) on one cell
KeyOf(c) == PyInt(StrStrip(AsStr(c)))

RowOrders(n) == { f \in [1..n -> 1..n] : \A i, j \in 1..n : i # j => f[i] # f[j] }

\* sort_values(by="Application Number"): the default kind is quicksort, which
\* does not promise the order of rows with equal keys, so every ascending
\* arrangement of the rows is a possible result.
SortValues(frame) ==
    { [i \in 1..Len(frame) |-> frame[f[i]]] :
        f \in { g \in RowOrders(Len(frame)) :
                  \A i \in 1..(Len(frame) - 1) : frame[g[i]].num <= frame[g[i + 1]].num } }

\* the frame with every key cell replaced by its integer (line 75)
WithIntKeys(frame) == [i \in 1..Len(frame) |-> Entry(KeyOf(frame[i].num).val, frame[i].dec)]

----------------------------------------------------------------------------
(* binary_search_nearest and search_application *)

\* df["Application Number"].tolist()
KeysOf(index) == [i \in 1..Len(index) |-> index[i].num]

\* bisect.bisect_left(a, x): binary search for the leftmost insertion point
RECURSIVE BisectLeft(_, _, _, _)
BisectLeft(a, x, lo, hi) ==
    IF lo >= hi THEN lo
    ELSE LET mid == (lo + hi) \div 2
         IN  IF a[mid + 1] < x THEN BisectLeft(a, x, mid + 1, hi)
             ELSE BisectLeft(a, x, lo, mid)

\* Python's None for before / after
None == [some |-> FALSE, val |-> 0]

Some(n) == [some |-> TRUE, val |-> n]

\* binary_search_nearest(df, target): the pair (before, after)
BinarySearchNearest(index, target) ==
    LET a == KeysOf(index)
        pos == BisectLeft(a, target, 0, Len(a))
    IN  [before |-> IF pos > 0 THEN Some(a[pos]) ELSE None,
         after |-> IF pos < Len(a) THEN Some(a[pos + 1]) ELSE None]

\* "x if before else None": the truth value of before (None and 0 are false)
Truthy(b) == b.some /\ b.val # 0

\* df[df["Application Number"] == n]: the matching rows, in index order
RowsWithKey(index, n) == SelectSeq(index, LAMBDA e : e.num = n)

\* one row of nearest_records, a cell of which may be None / NaN
NearestRow(index, label, b, query) ==
    [label |-> label,
     number |-> IF b.some THEN IntCell(b.val) ELSE NaN,
     decision |-> IF Truthy(b) THEN RowsWithKey(index, b.val)[1].dec ELSE NaN,
     difference |-> IF Truthy(b)
                    THEN IntCell(IF label = "Before" THEN query - b.val ELSE b.val - query)
                    ELSE NaN]

\* DataFrame.dropna(): a row with any null cell is dropped
NearestRecords(index, query) ==
    LET pair == BinarySearchNearest(index, query)
        rows == << NearestRow(index, "Before", pair.before, query),
                   NearestRow(index, "After", pair.after, query) >>
    IN  SelectSeq(rows, LAMBDA r : ~IsNull(r.number) /\ ~IsNull(r.decision)
                                      /\ ~IsNull(r.difference))

\* what one run of search_application shows
Shown(status, number, box, decision, nearest, raised) ==
    [status |-> status, number |-> number, box |-> box, decision |-> decision,
     nearest |-> nearest, raised |-> raised]

Idle == Shown("idle", 0, "none", NaN, <<>>, "none")

\* lines 119-135: the validation of the text the user typed
ParseInput(text) ==
    IF Contains(StrLower(text), IRL)
    THEN LET n == PyInt(FilterDigits(SplitLast(StrLower(text), IRL)))
         IN  IF ~n.ok THEN [st |-> "irl_invalid", val |-> 0]
             ELSE IF Len(PyStr(n.val)) < IrlMinDigits THEN [st |-> "irl_too_short", val |-> 0]
             ELSE [st |-> "ok", val |-> n.val]
    ELSE IF ~StrIsDigit(text) \/ Len(text) < PlainMinDigits
         THEN [st |-> "min_digits", val |-> 0]
         ELSE IF Len(text) > PlainMaxDigits THEN [st |-> "max_digits", val |-> 0]
         ELSE IF ~PyInt(text).ok THEN [st |-> "ValueError", val |-> 0]
         ELSE [st |-> "ok", val |-> PyInt(text).val]

\* lines 137-171: the exact match, else the nearest records
Lookup(index, query) ==
    LET result == RowsWithKey(index, query)
    IN  IF Len(result) > 0
        THEN LET decision == result[1].dec
             IN  IF decision.t # "str"
                 THEN Shown("raised", query, "none", NaN, <<>>, "AttributeError")
                 ELSE IF StrLower(decision.s) = REFUSED
                 THEN Shown("exact", query, "error", decision, <<>>, "none")
                 ELSE IF StrLower(decision.s) = APPROVED
                 THEN Shown("exact", query, "success", decision, <<>>, "none")
                 ELSE Shown("exact", query, "info", decision, <<>>, "none")
        ELSE Shown("not_found", query, "warning", NaN, NearestRecords(index, query), "none")

\* search_application(df) once the text is known; an empty text shows nothing
\* (line 117)
SearchApplication(index, text) ==
    LET q == ParseInput(text)
    IN  CASE text = <<>> -> Idle
          [] q.st = "ok" -> Lookup(index, q.val)
          [] q.st = "ValueError" -> Shown("raised", 0, "none", NaN, <<>>, "ValueError")
          [] q.st = "irl_invalid" -> Shown(q.st, 0, "error", NaN, <<>>, "none")
          [] OTHER -> Shown(q.st, 0, "warning", NaN, <<>>, "none")

----------------------------------------------------------------------------
(* The texts typed into st.text_input that are explored *)

UserInputs ==
    {
      \* nothing entered
      <<>>,
      \* the plain 8-digit form
      <<"1", "0", "0", "0", "0", "0", "0", "1">>,
      <<"1", "0", "0", "0", "0", "0", "0", "2">>,
      <<"1", "0", "0", "0", "0", "0", "0", "9">>,
      <<"0", "0", "0", "0", "0", "0", "0", "0">>,
      \* plain form, 7 and 9 digits
      <<"1", "2", "3", "4", "5", "6", "7">>,
      <<"1", "2", "3", "4", "5", "6", "7", "8", "9">>,
      \* plain form with a character that is no digit
      <<"1", "2", "a", "4", "5", "6", "7", "8">>,
      <<"1", "2", "a", "4", "5", "6", "7", "8", "9">>,
      \* plain form ending in U+00B2
      <<"1", "2", "3", "4", "5", "6", "7", "sup2">>,
      \* the country-code form
      <<"I", "R", "L", "1", "0", "0", "0", "0", "0", "0", "1">>,
      <<"i", "r", "l", " ", "0", "0", "1", "0", "0", "0", "0", "0", "0", "5">>,
      <<"i", "r", "l", "0", "0", "0", "0", "0", "0", "0", "1">>,
      <<"i", "r", "l">>,
      <<"I", "R", "L", "1", "2", "3", "4", "5", "6", "7">>,
      <<"i", "r", "l", "1", "I", "r", "l", "1", "0", "0", "0", "0", "0", "0", "2">>,
      <<"I", "r", "l", "1", "0", "0", "0", "0", "0", "0", "sup2", "3">>,
      <<"x", "-", "i", "r", "l", ":", " ", "1", "0", "0", "0", "0", "0", "0", "3">> }

----------------------------------------------------------------------------
(* The state machine: one run of main() and the reruns Streamlit makes for  *)
(* each text the user enters.                                               *)

Init ==
    /\ raw = <<>>
    /\ pc = "main"
    /\ df = <<>>
    /\ columns = "unnamed"
    /\ returned = "unset"
    /\ exc = "none"
    /\ user_input = <<>>
    /\ out = Idle

\* main, line 181: fetch_ods_file() returns the bytes of a sheet
FetchOdsFile ==
    /\ pc = "main"
    /\ \E sheet \in Sheets : raw' = sheet
    /\ pc' = "fetched"
    /\ UNCHANGED <<df, columns, returned, exc, user_input, out>>

\* main, lines 181-189: fetch_ods_file() returns None
FetchFails ==
    /\ pc = "main"
    /\ pc' = "fetch_failed"
    /\ out' = Shown("fetch_failed", 0, "error", NaN, <<>>, "none")
    /\ UNCHANGED <<raw, df, columns, returned, exc, user_input>>

\* prepare_dataframe, lines 62-65
ReadAndClean ==
    /\ pc = "fetched"
    /\ df' = CleanFrame(raw)
    /\ pc' = "cleaned"
    /\ UNCHANGED <<raw, columns, returned, exc, user_input, out>>

\* prepare_dataframe, lines 67-72
IdentifyHeader ==
    /\ pc = "cleaned"
    /\ LET pos == ScanHeader(df, 1)
       IN  IF pos > 0
           THEN df' = AfterHeader(df, pos) /\ columns' = "named"
           ELSE UNCHANGED <<df, columns>>
    /\ pc' = "extracted"
    /\ UNCHANGED <<raw, returned, exc, user_input, out>>

\* prepare_dataframe, lines 74-79: df["Application Number"] raises KeyError
\* when the columns were never renamed, astype(int) raises ValueError on the
\* first cell that is no integer, and otherwise the sorted frame is returned.
SortByNumber ==
    /\ pc = "extracted"
    /\ \/ /\ columns = "unnamed"
          /\ pc' = "raised"
          /\ exc' = "KeyError"
          /\ UNCHANGED <<df, returned>>
       \/ /\ columns = "named"
          /\ \E i \in 1..Len(df) : ~KeyOf(df[i].num).ok
          /\ pc' = "raised"
          /\ exc' = "ValueError"
          /\ UNCHANGED <<df, returned>>
       \/ /\ columns = "named"
          /\ \A i \in 1..Len(df) : KeyOf(df[i].num).ok
          /\ df' \in SortValues(WithIntKeys(df))
          /\ pc' = "returned"
          /\ returned' = "DataFrame"
          /\ UNCHANGED exc
    /\ UNCHANGED <<raw, columns, user_input, out>>

\* main, lines 183-187: the test of what prepare_dataframe returned
CheckPrepared ==
    /\ pc = "returned"
    /\ IF returned = "None"
       THEN /\ pc' = "prepare_failed"
            /\ out' = Shown("prepare_failed", 0, "error", NaN, <<>>, "none")
       ELSE /\ pc' = "ready"
            /\ UNCHANGED out
    /\ UNCHANGED <<raw, df, columns, returned, exc, user_input>>

\* search_application(df) with the text in the input box; Streamlit runs it
\* again each time the text changes.
Search ==
    /\ pc = "ready"
    /\ \E text \in UserInputs :
          /\ user_input' = text
          /\ out' = SearchApplication(df, text)
    /\ UNCHANGED <<raw, pc, df, columns, returned, exc>>

Next ==
    \/ FetchOdsFile
    \/ FetchFails
    \/ ReadAndClean
    \/ IdentifyHeader
    \/ SortByNumber
    \/ CheckPrepared
    \/ Search

Spec == Init /\ [][Next]_vars

----------------------------------------------------------------------------
(* Properties *)

\* a text has been entered and search_application has run on it
Searched == pc = "ready" /\ user_input # <<>>

\* the run got past the validation of lines 119-135 to the search of line 138
ReachedLookup == out.status \in {"exact", "not_found"} \/ out.raised = "AttributeError"

Query == ParseInput(user_input).val

\* the rows of the sheet that carry the two header tokens
HeaderRowsOfSheet ==
    { i \in 1..Len(raw) : /\ raw[i].u2 = StrCell(APPLICATION_NUMBER)
                          /\ raw[i].u3 = StrCell(DECISION) }

FirstHeaderOfSheet == CHOOSE i \in HeaderRowsOfSheet : \A j \in HeaderRowsOfSheet : i <= j

\* the rows after the first header that are not blank in the two kept columns
DataRowsOfSheet ==
    { i \in (FirstHeaderOfSheet + 1)..Len(raw) : ~(IsNull(raw[i].u2) /\ IsNull(raw[i].u3)) }

NthDataRow(k) ==
    CHOOSE i \in DataRowsOfSheet : Cardinality({ j \in DataRowsOfSheet : j <= i }) = k

\* the data rows of the sheet in document order, as (key cell, decision cell)
DocumentRows ==
    [k \in 1..Cardinality(DataRowsOfSheet) |-> Entry(raw[NthDataRow(k)].u2, raw[NthDataRow(k)].u3)]

\* C1: a query that equals the application number of an entry of the index
\* is answered by an exact match carrying that entry's number and decision,
\* never by "no record found".
C1_ExactMatchReturnsEntry ==
    (Searched /\ ParseInput(user_input).st = "ok") =>
        \A i \in 1..Len(df) :
            df[i].num = Query =>
                /\ out.status = "exact"
                /\ out.number = df[i].num
                /\ out.decision = df[i].dec

\* the row of nearest_records with the given label, if it is shown
ShownNearest(label) == SelectSeq(out.nearest, LAMBDA r : r.label = label)

\* C2: on a non-empty index with keys >= 0 and an accepted query that is no
\* key, "Before" is the greatest key below the query (absent exactly when
\* there is none), "After" the least key above it (absent exactly when there
\* is none), each with its distance to the query.
C2_NearestPair ==
    ( /\ Searched
      /\ ParseInput(user_input).st = "ok"
      /\ Len(df) > 0
      /\ \A i \in 1..Len(df) : df[i].num >= 0 /\ df[i].num # Query ) =>
        LET below == { df[i].num : i \in { j \in 1..Len(df) : df[j].num < Query } }
            above == { df[i].num : i \in { j \in 1..Len(df) : df[j].num > Query } }
            a == CHOOSE x \in below : \A y \in below : y <= x
            b == CHOOSE x \in above : \A y \in above : x <= y
        IN  /\ out.status = "not_found"
            /\ (below = {}) <=> (ShownNearest("Before") = <<>>)
            /\ (above = {}) <=> (ShownNearest("After") = <<>>)
            /\ below # {} =>
                   /\ ShownNearest("Before")[1].number = IntCell(a)
                   /\ ShownNearest("Before")[1].difference = IntCell(Query - a)
            /\ above # {} =>
                   /\ ShownNearest("After")[1].number = IntCell(b)
                   /\ ShownNearest("After")[1].difference = IntCell(b - Query)

\* C3: the index prepare_dataframe returns is strictly ascending by
\* application number, so its keys are pairwise distinct.
C3_StrictlyAscending ==
    pc \in {"returned", "ready"} =>
        \A i, j \in 1..Len(df) : i < j => df[i].num < df[j].num

\* the decision of the first row in document order whose key is n
FirstSeenDecision(n) ==
    LET rows == SelectSeq(DocumentRows, LAMBDA e : KeyOf(e.num).ok /\ KeyOf(e.num).val = n)
    IN  rows[1].dec

\* C4: of several rows with the same application number the index keeps only
\* the first in document order, and a lookup of that number shows the
\* decision of that first row.
C4_FirstSeenKept ==
    /\ pc \in {"returned", "ready"} =>
           \A i \in 1..Len(df) :
               /\ Cardinality({ j \in 1..Len(df) : df[j].num = df[i].num }) = 1
               /\ df[i].dec = FirstSeenDecision(df[i].num)
    /\ (Searched /\ out.status = "exact") => out.decision = FirstSeenDecision(out.number)

\* the defect the plain form names for a text: a character that is no ASCII
\* digit, fewer than eight digits, more than eight digits, or none
PlainDefect(text) ==
    IF \E i \in 1..Len(text) : ~IsAsciiDigit(text[i]) THEN "NotDigits"
    ELSE IF Len(text) < 8 THEN "TooShort"
    ELSE IF Len(text) > 8 THEN "TooLong"
    ELSE "none"

HasToken(text) == Contains(StrLower(text), IRL)

\* C5: a text without the token "irl" is accepted exactly when it is eight
\* ASCII digits; otherwise it is rejected with a message (never an exception)
\* and texts with different defects are shown different messages.
C5_PlainFormOutcomes ==
    (Searched /\ ~HasToken(user_input)) =>
        /\ ReachedLookup <=> PlainDefect(user_input) = "none"
        /\ PlainDefect(user_input) # "none" =>
               /\ out.raised = "none"
               /\ \A other \in UserInputs :
                      ( /\ ~HasToken(other)
                        /\ PlainDefect(other) \notin {"none", PlainDefect(user_input)} ) =>
                          SearchApplication(df, other) # out

\* the characters after the last occurrence of the token, ASCII digits only
DigitsAfterToken(text) ==
    LET low == StrLower(text)
        at == { i \in 1..(Len(low) - 2) : SubSeq(low, i, i + 2) = IRL }
        last == CHOOSE i \in at : \A j \in at : j <= i
    IN  SelectSeq(SubSeq(text, last + 3, Len(text)), IsAsciiDigit)

\* C6: a text with the token "irl" is accepted, with the value of the digits
\* that follow the last token, exactly when at least eight digits follow it
\* (leading zeros counted), and is rejected as too short otherwise.
C6_TokenFormOutcomes ==
    (Searched /\ HasToken(user_input)) =>
        IF Len(DigitsAfterToken(user_input)) >= 8
        THEN ReachedLookup /\ out.number = DecimalValue(DigitsAfterToken(user_input))
        ELSE out.status = "irl_too_short"

\* a key cell that is a pure digit string once trimmed
IsDigitKey(c) ==
    LET t == StrStrip(AsStr(c))
    IN  Len(t) > 0 /\ \A i \in 1..Len(t) : IsAsciiDigit(t[i])

\* C7: a data row whose key is no digit string is skipped: the build still
\* ends with an index that holds every row with a valid key and no other.
C7_MalformedRowsSkipped ==
    (HeaderRowsOfSheet # {} /\ pc \in {"raised", "returned", "ready"}) =>
        /\ pc # "raised"
        /\ LET valid == SelectSeq(DocumentRows, LAMBDA e : IsDigitKey(e.num))
           IN  /\ Len(df) = Len(valid)
               /\ \A k \in 1..Len(valid) :
                      \E i \in 1..Len(df) :
                          df[i] = Entry(DecimalValue(StrStrip(AsStr(valid[k].num))), valid[k].dec)

\* C8: a sheet without a header row ends prepare_dataframe in a failure value
\* that main reports as unavailable data; no exception leaves the function
\* and the keys are never normalized.
C8_NoHeaderFailureReturned ==
    (HeaderRowsOfSheet = {} /\ pc \in {"raised", "returned", "ready", "prepare_failed"}) =>
        pc = "prepare_failed" /\ exc = "none"

\* C9: when the sheet has a header row, the frame left by lines 62-72 is the
\* rows after the first header row that are not blank, in document order.
C9_DataRegion ==
    (pc = "extracted" /\ HeaderRowsOfSheet # {}) =>
        columns = "named" /\ df = DocumentRows

\* a sheet whose header is followed by data, with a row besides the header
\* (preamble before it, or a blank row after it) discarded
C9_Reached ==
    /\ pc = "extracted"
    /\ HeaderRowsOfSheet # {}
    /\ Len(df) >= 1
    /\ Len(raw) - Len(df) >= 2

\* what a lookup of q shows on an index without entries
EmptyOutcome(q) == Lookup(<<>>, q)

\* C10: a lookup that finds nothing shows the Empty outcome on an index
\* without entries and, on an index with entries, something else.
C10_EmptyDistinguishable ==
    (Searched /\ out.status = "not_found") =>
        (Len(df) = 0) <=> (out = EmptyOutcome(out.number))

=============================================================================
